---- MODULE Spec2Model ----
(***************************************************************************)
(* A model of the tgas repository: the three plugin registries, the        *)
(* unique-address sampling loops of the TGA backends, the lifecycle of a   *)
(* TGA instance (initialize / train / generate / clean) and the command    *)
(* line dispatchers.                                                       *)
(*                                                                         *)
(* Each component has its own specification over the shared variables:     *)
(*   Spec            the registries                                        *)
(*   SpecSampler     the unique-sample generators                          *)
(*   SpecLifecycle   a TGA instance and the files it provisions            *)
(*   SpecDispatch    the main() dispatchers                                *)
(*   SpecProgress    the progress bars of one core BasePlugin instance     *)
(***************************************************************************)
EXTENDS Integers, Sequences, FiniteSets, TLC

VARIABLES
    \* ---- registries ----
    regImpl,      \* which registry module the process has loaded
    PLUGINS,      \* core/registry.py, rmap/core/registry.py: kind -> name -> class
    registry,     \* tga_registry.py: name -> {description, class}
    clsName,      \* the class attribute cls.name of each plugin class
    clsVersion,   \* the class attribute cls.version of each plugin class
    regCall,      \* the last registry call and how it ended
    runnerRun,    \* the last run of tga_runner.py: its stdin line and what it wrote
    \* ---- unique-sample generators ----
    samImpl,      \* which backend's generate() runs
    model,        \* what training left behind: patterns, or the values the model can emit
    trained,      \* the training artifact exists (result.txt, transformer.model, self.model)
    count,        \* the count argument of the running call
    unique,       \* generate_from_tga's unique flag
    seen,         \* unique_ips / addresses: the set of accepted candidates
    attempts,     \* LSTMIPv6TGA.generate_unique's attempts counter
    progress,     \* the total the tqdm bar has been advanced by
    batch,        \* the lines of the current batch still to be looked at
    plain,        \* the list generate_from_tga builds when unique is false
    samPc,        \* "idle", "loop", "batch", "returned" or "raised"
    result,       \* the list the call returned
    samError,     \* the exception the call raised
    \* ---- a TGA instance and the files it provisions ----
    lifeImpl,     \* the class of the instance
    fileSaysX86,  \* the host's `file venv/bin/python` output contains "x86_64"
    env_python,   \* self.env_python: "unset" (no such attribute), None, or the venv's python
    initialized,  \* initialize() has run to its end on this instance
    repo,         \* repos/<repo_name>: "absent", "cloned", or "bare" (made by venv creation only)
    toolkit,      \* repos/ipv6toolkit exists
    venv,         \* repos/<repo_name>/venv exists
    files,        \* the sources of the clone that initialize() patches: file -> lines
    seedsFile,    \* the seeds file train() writes, or Absent
    trainOut,     \* the file generate() reads (main_output.txt, patterns.txt), or NoFile
    lifeCall,     \* the last method call: what it ran, how it ended, what it returned
    \* ---- the main() dispatchers ----
    dispImpl,     \* the dispatcher: "old_main" (_old/main.py), "main" (main.py), "cli" (cli/main.py)
    cloneDirs,    \* the TGAs whose clone directory exists on disk
    configured,   \* the TGAs whose setup()/initialize() has run to its end
    instance,     \* per plugin name, the attributes set on the object built last
    scanCall,     \* the last call of a scanner plugin's scan() and how it ended
    wsImpl,       \* the TGA class two invocations run at the same time
    wsFile,       \* the files under the clone: whose seeds each one's content comes from
    wsProc,       \* each invocation: its position, captured stdout and result
    invocation,   \* the last run of main(): its arguments, the methods it called, its exit code
    \* ---- the progress bars of one core BasePlugin instance ----
    _progress_bars_enabled,        \* progress_bars_enabled and TQDM_AVAILABLE
    _progress_bars,                \* the dict name -> tqdm bar (its position and count)
    _next_progress_bar_position,   \* the position the next auto-placed bar gets
    barCall       \* the last progress-bar call and what it returned

regVars == <<regImpl, PLUGINS, registry, clsName, clsVersion, regCall, runnerRun>>
lifeVars == <<lifeImpl, fileSaysX86, env_python, initialized, repo, toolkit, venv, files,
              seedsFile, trainOut, lifeCall>>
samVars == <<samImpl, model, trained, count, unique, seen, attempts, progress, batch,
             plain, samPc, result, samError>>

dispVars == <<dispImpl, cloneDirs, configured, instance, invocation, scanCall>>
wsVars == <<wsImpl, wsFile, wsProc>>
barVars == <<_progress_bars_enabled, _progress_bars, _next_progress_bar_position, barCall>>

None == "None"

\* what the actions of one component leave alone
regFrame == UNCHANGED <<barVars, samVars, lifeVars, dispVars, wsVars>>
samFrame == UNCHANGED <<barVars, regVars, lifeVars, dispVars, wsVars>>
lifeFrame == UNCHANGED <<barVars, regVars, samVars, dispVars, wsVars>>
dispFrame == UNCHANGED <<barVars, regVars, samVars, lifeVars, wsVars>>
wsFrame == UNCHANGED <<regVars, samVars, lifeVars, dispVars, barVars>>
barFrame == UNCHANGED <<regVars, samVars, lifeVars, dispVars, wsVars>>

(***************************************************************************)
(*                              REGISTRIES                                 *)
(***************************************************************************)

RegImpls == {"ipv6kit", "rmap", "tga_registry"}

\* core/registry.py:11
PLUGIN_KINDS == {"dataset", "tga", "scanner", "analyze"}

\* the kinds, classes and names the registration calls are drawn from
RegKinds == {"scanner", "tga"}
BadKind == "bogus"
PluginClasses == {"ClsA", "ClsB"}       \* subclasses of BasePlugin
OtherClasses == {"NotPlugin"}           \* a class that does not extend BasePlugin
GivenNames == {"x"}                     \* explicit name= arguments
RegKeys == PluginClasses \cup GivenNames
TgaNames == {"lstm_ipv6", "x"}
TgaClasses == {"LSTMIPv6TGA", "OtherTGA"}
Descriptions == {"d1", "d2"}
DefaultVersion == "0.1.0"

NoCall == [op |-> "none", kind |-> None, name |-> None, cls |-> None, outcome |-> "none"]

Call(op, kind, name, cls, outcome) ==
    [op |-> op, kind |-> kind, name |-> name, cls |-> cls, outcome |-> outcome]

\* a name that is not a key of tga_registry.registry
NoEntry == [description |-> None, class |-> None]

EmptyPlugins == [k \in RegKinds |-> [n \in RegKeys |-> None]]

\* name or cls.__name__
PluginName(name, cls) == IF name # None THEN name ELSE cls

\* issubclass(cls, BasePlugin)
IsPlugin(cls) == cls \in PluginClasses

\* ipv6kit(kind, name)(cls): strict registration
ipv6kit(kind, name, cls) ==
    /\ regImpl = "ipv6kit"
    /\ IF kind \notin PLUGIN_KINDS
       THEN /\ regCall' = Call("register", kind, name, cls, "ValueError: unknown kind")
            /\ UNCHANGED <<PLUGINS, clsName, clsVersion>>
       ELSE IF ~IsPlugin(cls)
       THEN /\ regCall' = Call("register", kind, name, cls, "TypeError")
            /\ UNCHANGED <<PLUGINS, clsName, clsVersion>>
       ELSE LET plugin_name == PluginName(name, cls) IN
            IF PLUGINS[kind][plugin_name] # None
            THEN /\ regCall' = Call("register", kind, plugin_name, cls,
                                    "ValueError: already registered")
                 /\ UNCHANGED <<PLUGINS, clsName, clsVersion>>
            ELSE /\ PLUGINS' = [PLUGINS EXCEPT ![kind][plugin_name] = cls]
                 /\ clsName' = IF clsName[cls] = None
                               THEN [clsName EXCEPT ![cls] = plugin_name]
                               ELSE clsName
                 /\ clsVersion' = IF clsVersion[cls] = None
                                  THEN [clsVersion EXCEPT ![cls] = DefaultVersion]
                                  ELSE clsVersion
                 /\ regCall' = Call("register", kind, plugin_name, cls, "ok")
    /\ UNCHANGED <<regImpl, registry, runnerRun>>
    /\ regFrame

\* rmap(kind, name)(cls): warn and override
rmap(kind, name, cls) ==
    /\ regImpl = "rmap"
    /\ IF ~IsPlugin(cls)
       THEN /\ regCall' = Call("register", kind, name, cls, "TypeError")
            /\ UNCHANGED <<PLUGINS, clsName, clsVersion>>
       ELSE LET plugin_name_to_register == PluginName(name, cls) IN
            /\ PLUGINS' = [PLUGINS EXCEPT ![kind][plugin_name_to_register] = cls]
            /\ clsName' = [clsName EXCEPT ![cls] = plugin_name_to_register]
            /\ clsVersion' = IF clsVersion[cls] = None
                             THEN [clsVersion EXCEPT ![cls] = DefaultVersion]
                             ELSE clsVersion
            /\ regCall' = Call("register", kind, plugin_name_to_register, cls,
                               IF PLUGINS[kind][plugin_name_to_register] # None
                               THEN "ok: overridden" ELSE "ok")
    /\ UNCHANGED <<regImpl, registry, runnerRun>>
    /\ regFrame

\* register_tga(name, description, tga_class): plain assignment
register_tga(name, description, tga_class) ==
    /\ regImpl = "tga_registry"
    /\ registry' = [registry EXCEPT ![name] =
                        [description |-> description, class |-> tga_class]]
    /\ regCall' = Call("register", "tga", name, tga_class, "ok")
    /\ UNCHANGED <<regImpl, PLUGINS, clsName, clsVersion, runnerRun>>
    /\ regFrame

\* PLUGINS[kind][name] as the CLIs read it
LookupPlugin(kind, name) ==
    /\ regImpl \in {"ipv6kit", "rmap"}
    /\ regCall' = Call("lookup", kind, name, PLUGINS[kind][name],
                       IF PLUGINS[kind][name] = None THEN "absent" ELSE "found")
    /\ UNCHANGED <<regImpl, PLUGINS, registry, clsName, clsVersion, runnerRun>>
    /\ regFrame

\* the lookup at the head of train_tga_from_addresses / generate_from_tga
LookupTga(tga_name) ==
    /\ regImpl = "tga_registry"
    /\ IF registry[tga_name] = NoEntry
       THEN regCall' = Call("lookup", "tga", tga_name, None, "ValueError: Unknown TGA")
       ELSE regCall' = Call("lookup", "tga", tga_name, registry[tga_name].class, "found")
    /\ UNCHANGED <<regImpl, PLUGINS, registry, clsName, clsVersion, runnerRun>>
    /\ regFrame

\* main() of cli/main.py: the handler_func set for a plugin parser of the kind
HandlerFor(kind) ==
    IF kind = "scan" THEN "handle_plugin_execution" ELSE "handle_not_implemented"

\* ipv6kit <kind> <plugin_name> ...: the parsers are built from PLUGINS
CliMain(kind, name) ==
    /\ regImpl = "ipv6kit"
    /\ regCall' = IF PLUGINS[kind][name] = None
                  THEN Call("cli", kind, name, None, "argparse: invalid choice")
                  ELSE Call("cli", kind, name, PLUGINS[kind][name], HandlerFor(kind))
    /\ UNCHANGED <<regImpl, PLUGINS, registry, clsName, clsVersion, runnerRun>>
    /\ regFrame

\* ---- the functions of tga_registry.py and the runner over them ----
\* addresses_json: a JSON list of hex strings, a list with a string that is
\* no hex, or text that is no JSON
AddressJsons == {"hex list", "bad hex", "malformed"}
\* model_info_json: names a readable pickle, names a file that is not there,
\* has no "model_path" key, or is no JSON
ModelInfoJsons == {"valid", "missing file", "no model_path", "malformed"}
\* tga_class.train(...) / model.generate(): ends well or raises
TgaOutcomes == {"ok", "raises"}

Unknown(tga_name) == tga_name \notin DOMAIN registry \/ registry[tga_name] = NoEntry

\* train_tga_from_addresses(tga_name, addresses_json)
train_tga_from_addresses(tga_name, addresses_json, to) ==
    IF Unknown(tga_name) THEN "ValueError: Unknown TGA"
    ELSE IF addresses_json = "malformed" THEN "JSONDecodeError"
    ELSE IF addresses_json = "bad hex" THEN "ValueError: fromhex"
    ELSE IF to = "raises" THEN "Exception"
    ELSE "ok"

\* generate_from_tga(tga_name, model_info_json, count, unique)
generate_from_tga(tga_name, model_info_json, to) ==
    IF model_info_json = "malformed" THEN "JSONDecodeError"
    ELSE IF model_info_json = "no model_path" THEN "KeyError"
    ELSE IF Unknown(tga_name) THEN "ValueError: Unknown TGA"
    ELSE IF model_info_json = "missing file" THEN "FileNotFoundError"
    ELSE IF to = "raises" THEN "Exception"
    ELSE "ok"

TrainTga(tga_name, addresses_json, to) ==
    /\ regImpl = "tga_registry"
    /\ regCall' = Call("train", "tga", tga_name, None,
                       train_tga_from_addresses(tga_name, addresses_json, to))
    /\ UNCHANGED <<regImpl, PLUGINS, registry, clsName, clsVersion, runnerRun>>
    /\ regFrame

GenerateTga(tga_name, model_info_json, to) ==
    /\ regImpl = "tga_registry"
    /\ regCall' = Call("generate", "tga", tga_name, None,
                       generate_from_tga(tga_name, model_info_json, to))
    /\ UNCHANGED <<regImpl, PLUGINS, registry, clsName, clsVersion, runnerRun>>
    /\ regFrame

\* the stdin line: empty, no JSON, JSON that is no object, or a command object
Missing == "<missing>"
Commands == [kind : {"object"},
             command : {"list_tgas", "train", "generate", "bogus", Missing},
             tga_name : {"lstm_ipv6", Missing},
             payload : {"valid", "bad hex", "missing file", Missing}]
NoCommand(kind) == [kind |-> kind, command |-> Missing, tga_name |-> Missing, payload |-> Missing]
RunnerLines == { NoCommand(k) : k \in {"empty", "not json", "not an object"} } \cup Commands

\* what a handler leaves on stdout: lines the training printed, then one response
Out(raised, stdout) == [raised |-> raised, stdout |-> stdout]

\* handle_train(command)
handle_train(command, to) ==
    IF command.tga_name = Missing \/ command.payload = Missing
    THEN Out(TRUE, <<"error">>)                                   \* KeyError
    ELSE LET r == train_tga_from_addresses(command.tga_name,
                      IF command.payload = "bad hex" THEN "bad hex" ELSE "hex list", to)
         IN  IF r = "ok" THEN Out(FALSE, <<"Epoch 0", "result">>)
             ELSE IF r = "Exception" THEN Out(TRUE, <<"Epoch 0", "error">>)
             ELSE Out(TRUE, <<"error">>)

\* handle_generate(command)
handle_generate(command, to) ==
    IF command.tga_name = Missing \/ command.payload = Missing
    THEN Out(TRUE, <<"error">>)                                   \* KeyError
    ELSE LET r == generate_from_tga(command.tga_name,
                      IF command.payload = "missing file" THEN "missing file" ELSE "valid", to)
         IN  IF r = "ok" THEN Out(FALSE, <<"result">>) ELSE Out(TRUE, <<"error">>)

\* main() of tga_runner.py without the return after "No command received"
runner_main_falls_through(line, to) ==
    IF line.kind = "empty" THEN Out(FALSE, <<"error", "error">>)
    ELSE IF line.kind = "not json" THEN Out(FALSE, <<"error">>)
    ELSE IF line.kind = "not an object" THEN Out(FALSE, <<"error">>)
    ELSE IF line.command = "list_tgas" THEN Out(FALSE, <<"result">>)
    ELSE IF line.command = "train" THEN handle_train(line, to)
    ELSE IF line.command = "generate" THEN handle_generate(line, to)
    ELSE Out(FALSE, <<"error">>)

\* main() of tga_runner.py
runner_main(line, to) ==
    IF line.kind = "empty" THEN Out(FALSE, <<"error">>)                     \* No command received
    ELSE IF line.kind = "not json" THEN Out(FALSE, <<"error">>)        \* Invalid JSON
    ELSE IF line.kind = "not an object" THEN Out(FALSE, <<"error">>)              \* command.get: Unexpected error
    ELSE IF line.command = "list_tgas" THEN Out(FALSE, <<"result">>)
    ELSE IF line.command = "train" THEN handle_train(line, to)
    ELSE IF line.command = "generate" THEN handle_generate(line, to)
    ELSE Out(FALSE, <<"error">>)                                  \* Unknown command

NoRun == [line |-> NoCommand("none"), raised |-> FALSE, stdout |-> <<>>]

\* echo <line> | python tga_runner.py
RunnerMain(line, to) ==
    /\ regImpl = "tga_registry"
    /\ LET o == runner_main(line, to) IN
       runnerRun' = [line |-> line, raised |-> o.raised, stdout |-> o.stdout]
    /\ UNCHANGED <<regImpl, PLUGINS, registry, clsName, clsVersion, regCall>>
    /\ regFrame

\* _auto_register_tgas(): lstm_ipv6 is registered at import unless the import fails
AutoRegistered ==
    { [n \in TgaNames |-> NoEntry],
      [n \in TgaNames |-> IF n = "lstm_ipv6"
                          THEN [description |-> "d1", class |-> "LSTMIPv6TGA"]
                          ELSE NoEntry] }

RegInit ==
    /\ regImpl \in RegImpls
    /\ PLUGINS = EmptyPlugins
    /\ registry \in (IF regImpl = "tga_registry" THEN AutoRegistered
                     ELSE {[n \in TgaNames |-> NoEntry]})
    /\ clsName \in (IF regImpl = "tga_registry" THEN {[c \in PluginClasses |-> None]}
                    ELSE [PluginClasses -> {None} \cup GivenNames])
    /\ clsVersion \in (IF regImpl = "tga_registry" THEN {[c \in PluginClasses |-> None]}
                       ELSE [PluginClasses -> {None, "1.0"}])
    /\ regCall = NoCall
    /\ runnerRun = NoRun

RegIdle ==
    /\ regImpl = "ipv6kit"
    /\ PLUGINS = EmptyPlugins
    /\ registry = [n \in TgaNames |-> NoEntry]
    /\ clsName = [c \in PluginClasses |-> None]
    /\ clsVersion = [c \in PluginClasses |-> None]
    /\ regCall = NoCall
    /\ runnerRun = NoRun

(***************************************************************************)
(*                        UNIQUE-SAMPLE GENERATORS                         *)
(***************************************************************************)

SamImpls == {"sixgen", "entropy", "sixveclm", "lstm"}

\* the largest count a call is made with
MaxCount == 3
\* the largest number of lines one batch of an external generator holds
MaxBatch == 2
\* the largest total the progress bar is followed to
MaxProgress == 8
\* lstm_tga.py:140: max_attempts = count * 100
AttemptsPerCount == 100
\* _old/tgas/entropy.py:65: a result line is an address when it has 32 characters
AddrLen == 32

\* random.choice('0123456789abcdef'), cut down to two digits
HexDigits == {"0", "1"}
HexChars == <<"0", "1", "2", "3", "4", "5", "6", "7",
              "8", "9", "a", "b", "c", "d", "e", "f">>

Rep(c, n) == [i \in 1..n |-> c]

\* result.txt of 6Gen: wildcard patterns
PatternPool == { <<"0", "*">>, <<"*", "*">>, <<"1", "1">> }
\* lines c2-decode.py can print: 32 hex characters
AddrLines == { Rep("0", AddrLen), Rep("1", AddrLen), Rep("2", AddrLen), Rep("3", AddrLen) }
\* other lines of the results file: the empty string after the last newline, a short line
JunkLines == { <<>>, <<"#", "x">> }
\* lines of a 6VecLM candidate file
VecLines == { <<"a">>, <<"b">>, <<"c">>, <<"d">> }
\* byte strings LSTMIPv6TGA.generate() can return
BytePool == { <<0, 0>>, <<0, 1>>, <<1, 0>>, <<171, 16>> }

ModelsOf(impl) ==
    CASE impl = "sixgen"   -> SUBSET PatternPool
      [] impl = "entropy"  -> SUBSET AddrLines
      [] impl = "sixveclm" -> SUBSET VecLines
      [] impl = "lstm"     -> SUBSET BytePool

\* every way to replace each '*' of pat by a hex digit
RECURSIVE Fills(_)
Fills(pat) ==
    IF pat = <<>> THEN { <<>> }
    ELSE { <<c>> \o rest : c \in (IF Head(pat) = "*" THEN HexDigits ELSE {Head(pat)}),
                            rest \in Fills(Tail(pat)) }

\* sample_ip(pattern): every '*' replaced by a random hex digit
sample_ip(pat) == Fills(pat)

\* add_colans(line): a colon after every four characters
add_colans(line) ==
    LET n == Len(line)
        m == n + ((n - 1) \div 4)
    IN  [i \in 1..m |-> IF i % 5 = 0 THEN ":" ELSE line[i - (i \div 5)]]

\* bytes.hex()
Hex(addr) ==
    [i \in 1..(2 * Len(addr)) |->
        IF i % 2 = 1 THEN HexChars[(addr[(i + 1) \div 2] \div 16) + 1]
                     ELSE HexChars[(addr[i \div 2] % 16) + 1]]

\* the lines one run of the external generator can leave in its output file
BatchesOf(lines) == UNION { [1..n -> lines] : n \in 0..MaxBatch }

EntropyBatches == BatchesOf(model \cup JunkLines)
VecBatches == BatchesOf(model \cup {<<>>})

\* the candidate space of the running producer: every value it can ever have accepted
CandidateSpace ==
    CASE samImpl = "sixgen"   -> UNION { sample_ip(p) : p \in model }
      [] samImpl = "entropy"  -> { add_colans(l) : l \in { x \in model : Len(x) = AddrLen } }
      [] samImpl = "sixveclm" -> model \ {<<>>}
      [] samImpl = "lstm"     -> model

\* list(a_set): the elements in some order
ListsOf(S) ==
    { f \in [1..Cardinality(S) -> S] : \A i, j \in 1..Cardinality(S) : f[i] = f[j] => i = j }

\* a_list[:n]
Take(list, n) == SubSeq(list, 1, IF n < Len(list) THEN n ELSE Len(list))

\* [addr.hex() for addr in addresses]
hex_addresses(addresses) == [i \in 1..Len(addresses) |-> Hex(addresses[i])]

Raise(err) ==
    /\ samPc' = "raised"
    /\ samError' = err
    /\ UNCHANGED result

Return(list) ==
    /\ samPc' = "returned"
    /\ result' = list
    /\ UNCHANGED samError

\* while len(unique_ips) < count
SetLoopGuard == Cardinality(seen) < count

\* the loop of generate_unique without its bound on the attempts
LstmLoopGuardNoCap == Cardinality(seen) < count

\* while len(addresses) < count and attempts < max_attempts
LstmLoopGuard == Cardinality(seen) < count /\ attempts < count * AttemptsPerCount

\* ---- SixGenTGA.generate(count) ----
SixGenStart(n) ==
    /\ samImpl = "sixgen" /\ samPc = "idle"
    /\ count' = n
    /\ IF ~trained
       THEN Raise("FileNotFoundError")          \* open(result.txt)
       ELSE samPc' = "loop" /\ UNCHANGED <<result, samError>>
    /\ UNCHANGED <<samImpl, model, trained, unique, seen, attempts, progress, batch, plain>>
    /\ samFrame

SixGenIter ==
    /\ samImpl = "sixgen" /\ samPc = "loop"
    /\ IF SetLoopGuard
       THEN IF model = {}
            THEN Raise("IndexError") /\ UNCHANGED <<seen, progress>>   \* random.choice([])
            ELSE \E pat \in model : \E ip \in sample_ip(pat) :
                    /\ IF ip \notin seen
                       THEN seen' = seen \cup {ip} /\ progress' = progress + 1
                       ELSE UNCHANGED <<seen, progress>>
                    /\ UNCHANGED <<samPc, result, samError>>
       ELSE (\E list \in ListsOf(seen) : Return(list)) /\ UNCHANGED <<seen, progress>>
    /\ UNCHANGED <<samImpl, model, trained, count, unique, attempts, batch, plain>>
    /\ samFrame

\* ---- EntropyIp.generate(count) ----
EntropyStart(n) ==
    /\ samImpl = "entropy" /\ samPc = "idle"
    /\ count' = n
    /\ samPc' = "loop"
    /\ UNCHANGED <<samImpl, model, trained, unique, seen, attempts, progress, batch, plain,
                   result, samError>>
    /\ samFrame

\* the head of the while loop: run c1-gen.py and c2-decode.py, read the results file
EntropyFetch ==
    /\ samImpl = "entropy" /\ samPc = "loop"
    /\ IF SetLoopGuard
       THEN \E lines \in EntropyBatches :
               /\ batch' = lines
               /\ samPc' = "batch"
               /\ UNCHANGED <<result, samError>>
       ELSE (\E list \in ListsOf(seen) : Return(Take(list, count))) /\ UNCHANGED batch
    /\ UNCHANGED <<samImpl, model, trained, count, unique, seen, attempts, progress, plain>>
    /\ samFrame

\* one pass of "for line in lines"
EntropyLine ==
    /\ samImpl = "entropy" /\ samPc = "batch"
    /\ IF batch = <<>> \/ Cardinality(seen) >= count
       THEN /\ samPc' = "loop" /\ batch' = <<>>          \* the batch ended, or break
            /\ UNCHANGED <<seen, progress>>
       ELSE LET line == Head(batch) IN
            /\ batch' = Tail(batch)
            /\ samPc' = samPc
            /\ IF Len(line) # AddrLen
               THEN UNCHANGED <<seen, progress>>
               ELSE LET addr == add_colans(line) IN
                    IF addr \notin seen
                    THEN seen' = seen \cup {addr} /\ progress' = progress + 1
                    ELSE UNCHANGED <<seen, progress>>
    /\ UNCHANGED <<samImpl, model, trained, count, unique, attempts, plain, result, samError>>
    /\ samFrame

\* ---- SixVecLMTGA.generate(count) ----
VecStart(n) ==
    /\ samImpl = "sixveclm" /\ samPc = "idle"
    /\ count' = n
    /\ IF ~trained
       THEN Raise("FileNotFoundError")          \* "Run train(...) before generate()."
       ELSE samPc' = "loop" /\ UNCHANGED <<result, samError>>
    /\ UNCHANGED <<samImpl, model, trained, unique, seen, attempts, progress, batch, plain>>
    /\ samFrame

\* the head of the while loop: generate_batch()
VecFetch ==
    /\ samImpl = "sixveclm" /\ samPc = "loop"
    /\ IF SetLoopGuard
       THEN \E lines \in VecBatches :
               /\ batch' = lines
               /\ samPc' = "batch"
               /\ UNCHANGED <<result, samError>>
       ELSE (\E list \in ListsOf(seen) : Return(Take(list, count))) /\ UNCHANGED batch
    /\ UNCHANGED <<samImpl, model, trained, count, unique, seen, attempts, progress, plain>>
    /\ samFrame

\* one pass of "for ip in ips", and pbar.update(len(unique_ips)) after the last
VecLine ==
    /\ samImpl = "sixveclm" /\ samPc = "batch"
    /\ IF batch = <<>>
       THEN /\ progress + Cardinality(seen) <= MaxProgress
            /\ samPc' = "loop"
            /\ progress' = progress + Cardinality(seen)
            /\ UNCHANGED <<batch, seen>>
       ELSE LET ip == Head(batch) IN
            /\ batch' = Tail(batch)
            /\ samPc' = samPc
            /\ seen' = IF ip # <<>> /\ ip \notin seen THEN seen \cup {ip} ELSE seen
            /\ UNCHANGED progress
    /\ UNCHANGED <<samImpl, model, trained, count, attempts, unique, plain, result, samError>>
    /\ samFrame

\* ---- generate_from_tga(..., count, unique) on an LSTMIPv6TGA ----
LstmStart(n, u) ==
    /\ samImpl = "lstm" /\ samPc = "idle"
    /\ count' = n
    /\ unique' = u
    /\ IF u /\ ~trained
       THEN Raise("ValueError: Model not trained")      \* generate_unique's own check
       ELSE samPc' = "loop" /\ UNCHANGED <<result, samError>>
    /\ UNCHANGED <<samImpl, model, trained, seen, attempts, progress, batch, plain>>
    /\ samFrame

\* one pass of generate_unique's while loop, then the hex conversion
LstmUniqueIter ==
    /\ samImpl = "lstm" /\ samPc = "loop" /\ unique
    /\ IF LstmLoopGuard
       THEN \E addr \in model :                   \* addr = self.generate()
               /\ seen' = seen \cup {addr}
               /\ attempts' = attempts + 1
               /\ UNCHANGED <<samPc, result, samError>>
       ELSE /\ \E list \in ListsOf(seen) : Return(hex_addresses(list))
            /\ UNCHANGED <<seen, attempts>>
    /\ UNCHANGED <<samImpl, model, trained, count, unique, progress, batch, plain>>
    /\ samFrame

\* one pass of [model.generate() for _ in range(count)], then the hex conversion
LstmPlainIter ==
    /\ samImpl = "lstm" /\ samPc = "loop" /\ ~unique
    /\ IF Len(plain) < count
       THEN IF ~trained
            THEN Raise("ValueError: Model not trained") /\ UNCHANGED plain
            ELSE /\ \E addr \in model : plain' = Append(plain, addr)
                 /\ UNCHANGED <<samPc, result, samError>>
       ELSE Return(hex_addresses(plain)) /\ UNCHANGED plain
    /\ UNCHANGED <<samImpl, model, trained, count, unique, seen, attempts, progress, batch>>
    /\ samFrame

SamInit ==
    /\ samImpl \in SamImpls
    /\ model \in ModelsOf(samImpl)
    /\ trained \in BOOLEAN
    /\ (samImpl = "entropy" => trained)
    /\ (~trained => model = {})
    /\ (samImpl = "lstm" /\ trained => model # {})     \* generate() always returns bytes
    /\ count = 0
    /\ unique = TRUE
    /\ seen = {}
    /\ attempts = 0
    /\ progress = 0
    /\ batch = <<>>
    /\ plain = <<>>
    /\ samPc = "idle"
    /\ result = <<>>
    /\ samError = None

SamIdle ==
    /\ samImpl = "sixgen"
    /\ model = {}
    /\ trained = FALSE
    /\ count = 0
    /\ unique = TRUE
    /\ seen = {}
    /\ attempts = 0
    /\ progress = 0
    /\ batch = <<>>
    /\ plain = <<>>
    /\ samPc = "idle"
    /\ result = <<>>
    /\ samError = None

NextSampler ==
    \/ \E n \in 0..MaxCount : SixGenStart(n)
    \/ SixGenIter
    \/ \E n \in 0..MaxCount : EntropyStart(n)
    \/ EntropyFetch
    \/ EntropyLine
    \/ \E n \in 0..MaxCount : VecStart(n)
    \/ VecFetch
    \/ VecLine
    \/ \E n \in 0..MaxCount, u \in BOOLEAN : LstmStart(n, u)
    \/ LstmUniqueIter
    \/ LstmPlainIter

(***************************************************************************)
(*                 A TGA INSTANCE AND WHAT IT PROVISIONS                   *)
(***************************************************************************)

LifeImpls == {"TGA", "EntropyIp", "SixForestTGA", "SixGraphTGA", "SixGANTGA",
              "SixDETTGA", "OldSixForestTGA"}
\* the classes of tgas/ (their base class is tgas/base.py)
TgasImpls == LifeImpls \ {"OldSixForestTGA"}

\* the largest count generate() is called with
MaxGen == 2
\* the largest number of seed addresses train() is called with
MaxSeeds == 2

VenvPython == "venv/bin/python"
Absent == <<"<absent>">>
NoFile == << <<"<absent>">> >>

\* seed addresses, and what ipaddress.IPv6Address(addr).exploded makes of them
SeedPool == {"2001:db8::1", "bogus"}
ValidSeed(addr) == addr = "2001:db8::1"
Exploded(addr) ==
    CASE addr = "2001:db8::1" -> "2001:0db8:0000:0000:0000:0000:0000:0001"
\* ip.replace(":", "")
NoColons(addr) ==
    CASE addr = "2001:db8::1" -> "2001db81"
      [] OTHER                -> addr
SeedLists == UNION { [1..n -> SeedPool] : n \in 0..MaxSeeds }

\* the external commands of initialize() and train() that may fail
InitFails(impl) ==
    CASE impl = "TGA"             -> {"none"}
      [] impl = "EntropyIp"       -> {"none", "pyenv", "venv", "pip"}
      [] impl = "SixForestTGA"    -> {"none", "git clone", "pyenv", "venv", "pip"}
      [] impl = "SixDETTGA"       -> {"none", "git clone", "pyenv", "venv", "pip"}
      [] impl = "SixGraphTGA"     -> {"none", "git clone", "pyenv", "venv", "pip", "git checkout"}
      [] impl = "SixGANTGA"       -> {"none", "git clone", "pyenv", "venv", "pip", "git checkout", "make"}
      [] impl = "OldSixForestTGA" -> {"none", "git clone"}
TrainFails(impl) ==
    CASE impl = "TGA"             -> {"none"}
      [] impl = "EntropyIp"       -> {"none", "a1-segments.py"}
      [] impl = "SixGANTGA"       -> {"none", "train.py"}
      [] impl = "SixDETTGA"       -> {"none"}
      [] OTHER                    -> {"none", "convert.py", "main.py"}

\* ---- the sources initialize() patches ----
SrcFiles == {"PatternMining.py", "train.py", "generator.py", "classifier.py"}
NoSources == [f \in SrcFiles |-> <<>>]
TfImport == "import tensorflow as tf"
TfCompat == << "import tensorflow.compat.v1 as tf", "import tensorflow_addons as tfa",
               "tf.disable_v2_behavior()", "tf.contrib = type('contrib', (), {})()",
               "tf.contrib.rnn = tf.compat.v1.nn.rnn_cell",
               "tf.contrib.seq2seq = tfa.seq2seq", "" >>
XiReturn == "return len(arrs) / xi"
XiGuard == << "if xi == 0: return float('inf')", "return len(arrs) / xi" >>

\* the files as git clone (and git checkout --) leaves them
OriginalFiles(impl) ==
    CASE impl = "SixGraphTGA" -> [NoSources EXCEPT !["PatternMining.py"] = <<"def f(arrs):", XiReturn>>]
      [] impl = "SixGANTGA"   -> [NoSources EXCEPT
                                    !["train.py"] = <<TfImport, "train()">>,
                                    !["generator.py"] = <<TfImport, "tf.random_normal(">>,
                                    !["classifier.py"] = <<"../../Tools/ipv6toolkit/addr6">>]
      [] OTHER                -> NoSources

\* content.replace(old_text, new_text), line by line
RECURSIVE ReplaceAll(_, _, _)
ReplaceAll(content, old, new) ==
    IF content = <<>> THEN <<>>
    ELSE (IF Head(content) = old THEN new ELSE <<Head(content)>>)
             \o ReplaceAll(Tail(content), old, new)

\* ---- what a method call has done so far ----
World(w_repo, w_toolkit, w_venv, w_env, w_files) ==
    [repo |-> w_repo, toolkit |-> w_toolkit, venv |-> w_venv, env_python |-> w_env,
     files |-> w_files, work |-> {}, err |-> None]

Now == World(repo, toolkit, venv, env_python, files)
Ok(w) == w.err = None
Did(w, what) == [w EXCEPT !.work = @ \cup {what}]
Failed(w, e) == [w EXCEPT !.err = e]

\* TGA.clone() without its "already exists" test
cloneAlways(w, fail) ==
    IF ~Ok(w) THEN w
    ELSE IF fail = "git clone" THEN Failed(Did(w, "git clone"), "CalledProcessError")
    ELSE Did([w EXCEPT !.repo = "cloned", !.files = OriginalFiles(lifeImpl)], "git clone")

\* TGA.clone()
clone(w, fail) ==
    IF ~Ok(w) THEN w
    ELSE IF w.repo = "absent"
    THEN IF fail = "git clone" THEN Failed(Did(w, "git clone"), "CalledProcessError")
         ELSE Did([w EXCEPT !.repo = "cloned", !.files = OriginalFiles(lifeImpl)], "git clone")
    ELSE w

\* TGA("https://github.com/fgont/ipv6toolkit").clone()
cloneToolkit(w, fail) ==
    IF ~Ok(w) THEN w
    ELSE IF ~w.toolkit
    THEN IF fail = "git clone" THEN Failed(Did(w, "git clone"), "CalledProcessError")
         ELSE Did([w EXCEPT !.toolkit = TRUE], "git clone")
    ELSE w

\* TGA._install_dependencies(deps)
_install_dependencies(w, fail) ==
    IF ~Ok(w) THEN w
    ELSE IF w.env_python # VenvPython \/ ~w.venv THEN Failed(w, "RuntimeError")
    ELSE IF fail = "pip" THEN Failed(Did(w, "pip install"), "CalledProcessError")
    ELSE Did(w, "pip install")

\* TGA._initialize_python(version, deps), rosetta = False
_initialize_python(w, fail) ==
    LET w1 == IF Ok(w) /\ w.venv /\ fileSaysX86          \* is_x86 != rosetta
              THEN Did([w EXCEPT !.venv = FALSE], "rm venv") ELSE w
        w2 == IF ~Ok(w1) THEN w1
              ELSE IF fail = "pyenv" THEN Failed(Did(w1, "pyenv install"), "CalledProcessError")
              ELSE Did(w1, "pyenv install")
        w3 == IF ~Ok(w2) \/ w2.venv THEN w2
              ELSE IF fail = "venv" THEN Failed(Did(w2, "create venv"), "CalledProcessError")
              ELSE Did([w2 EXCEPT !.venv = TRUE,
                                  !.repo = IF @ = "absent" THEN "bare" ELSE @], "create venv")
        w4 == IF ~Ok(w3) THEN w3 ELSE [w3 EXCEPT !.env_python = VenvPython]
    IN  _install_dependencies(w4, fail)

\* TGA._patch_initialize([file_name]): git checkout -- file
_patch_initialize(w, file_name, fail) ==
    IF ~Ok(w) \/ w.repo # "cloned" THEN w
    ELSE IF fail = "git checkout" THEN Failed(Did(w, "git checkout"), "CalledProcessError")
    ELSE Did([w EXCEPT !.files[file_name] = OriginalFiles(lifeImpl)[file_name]], "git checkout")

\* TGA._patch_replace(file_name, old_text, new_text)
_patch_replace(w, file_name, old_text, new_text) ==
    IF ~Ok(w) THEN w
    ELSE IF w.repo # "cloned" THEN Failed(w, "FileNotFoundError")
    ELSE LET patched == ReplaceAll(w.files[file_name], old_text, new_text) IN
         IF patched # w.files[file_name]
         THEN Did([w EXCEPT !.files[file_name] = patched], "patch")
         ELSE w

\* subprocess.run(["make", "addr6"], cwd="repos/ipv6toolkit", check=True)
make(w, fail) ==
    IF ~Ok(w) THEN w
    ELSE IF fail = "make" THEN Failed(Did(w, "make"), "CalledProcessError")
    ELSE Did(w, "make")

\* SixForestTGA.initialize()
SixForestInitialize(w, fail) == _initialize_python(clone(w, fail), fail)

\* SixGraphTGA.initialize()
SixGraphInitialize(w, fail) ==
    _patch_replace(
        _patch_initialize(_initialize_python(clone(w, fail), fail), "PatternMining.py", fail),
        "PatternMining.py", XiReturn, XiGuard)

\* SixGANTGA.initialize()
SixGANInitialize(w, fail) ==
    LET a == _initialize_python(clone(w, fail), fail)
        b == _patch_initialize(_patch_initialize(_patch_initialize(a,
                 "train.py", fail), "classifier.py", fail), "generator.py", fail)
        c == _patch_replace(_patch_replace(b, "train.py", TfImport, TfCompat),
                            "generator.py", TfImport, TfCompat)
        d == make(cloneToolkit(c, fail), fail)
    IN  _patch_replace(
            _patch_replace(d, "generator.py", "tf.random_normal(", <<"tf.random.normal(">>),
            "classifier.py", "../../Tools/ipv6toolkit/addr6", <<"../ipv6toolkit/addr6">>)

\* SixDETTGA.initialize()
SixDETInitialize(w, fail) == _initialize_python(clone(w, fail), fail)

\* EntropyIp.initialize(): no clone
EntropyInitialize(w, fail) == _initialize_python(w, fail)

\* setup() of _old/tgas/sixforest.py: clone, install_python, install_packages
OldSetup(w, fail) ==
    IF fail # "none" THEN Failed(Did(w, "git clone"), "CalledProcessError")
    ELSE [w EXCEPT !.repo = "cloned", !.venv = TRUE, !.env_python = VenvPython,
                   !.work = {"git clone", "create venv", "pip install"}]

InitializeOf(impl, w, fail) ==
    CASE impl = "TGA"             -> w                   \* TGA.initialize(): pass
      [] impl = "EntropyIp"       -> EntropyInitialize(w, fail)
      [] impl = "SixForestTGA"    -> SixForestInitialize(w, fail)
      [] impl = "SixGraphTGA"     -> SixGraphInitialize(w, fail)
      [] impl = "SixGANTGA"       -> SixGANInitialize(w, fail)
      [] impl = "SixDETTGA"       -> SixDETInitialize(w, fail)
      [] impl = "OldSixForestTGA" -> OldSetup(w, fail)

LifeCall(op, outcome, work, ret) ==
    [op |-> op, outcome |-> outcome, work |-> work, ret |-> ret, count |-> 0,
     \* the call is an initialize() that directly follows an initialize() that ended well
     again |-> op = "initialize" /\ lifeCall.op = "initialize" /\ lifeCall.outcome = "ok"]
NoLifeCall == [op |-> "none", outcome |-> "none", work |-> {}, ret |-> <<>>, count |-> 0,
               again |-> FALSE]

\* tga.initialize() (tga.setup() for _old)
Initialize(fail) ==
    LET w == InitializeOf(lifeImpl, Now, fail) IN
    /\ repo' = w.repo
    /\ toolkit' = w.toolkit
    /\ venv' = w.venv
    /\ env_python' = w.env_python
    /\ files' = w.files
    /\ initialized' = (initialized \/ Ok(w))
    /\ lifeCall' = LifeCall("initialize", IF Ok(w) THEN "ok" ELSE w.err, w.work, <<>>)
    /\ UNCHANGED <<lifeImpl, fileSaysX86, seedsFile, trainOut>>
    /\ lifeFrame

\* ---- files train() leaves behind ----
RegionLine == <<"*", "Region", "*">>
ForestPartial == <<"2", "0", "0", "1", "0", "0", "0", "*">>
\* main_output.txt after a run of main.py of 6Forest
ForestOutputs == { <<>>, <<RegionLine>>, <<RegionLine, Rep("0", 8)>>,
                   <<RegionLine, ForestPartial>>, <<RegionLine, <<>>, ForestPartial>> }
\* main_output.txt after main.py died
FailedOutputs == { <<>>, << <<"T", "r", "a", "c", "e">> >> }
GraphPattern == Rep("0", AddrLen - 1) \o <<"*">>
\* patterns.txt: the stdout of main.py of 6Graph
GraphOutputs == { <<>>, << <<"#", "x">> >>, <<GraphPattern>>, << <<"#", "x">>, GraphPattern>> }
\* data/candidate_set/candidate_generator_*_epoch_*.txt of 6GAN
GanOutputs == { << Rep("0", 8) >> }

T(outcome, sf, out, rp, work) ==
    [outcome |-> outcome, seedsFile |-> sf, trainOut |-> out, repo |-> rp, work |-> work]

\* if not self.env_python, on an instance whose __init__ never set the attribute
EnvCheck == IF env_python = "unset" THEN "AttributeError"
            ELSE IF env_python = None THEN "RuntimeError" ELSE "ok"

\* the seeds SixGraphTGA.train() writes before the first invalid address
FirstBad(seeds) ==
    IF \E i \in 1..Len(seeds) : ~ValidSeed(seeds[i])
    THEN CHOOSE i \in 1..Len(seeds) :
            ~ValidSeed(seeds[i]) /\ \A j \in 1..(i - 1) : ValidSeed(seeds[j])
    ELSE Len(seeds) + 1
ExplodedPrefix(seeds) == [i \in 1..(FirstBad(seeds) - 1) |-> Exploded(seeds[i])]

\* SixForestTGA.train(ipv6_addresses)
SixForestTrain(seeds, fail) ==
    IF EnvCheck # "ok" THEN { T(EnvCheck, seedsFile, trainOut, repo, {}) }
    ELSE IF repo = "absent" THEN { T("FileNotFoundError", seedsFile, trainOut, repo, {}) }
    ELSE IF repo = "bare" THEN { T("ok", seeds, trainOut, repo, {"seeds"}) }
    ELSE IF ~venv THEN { T("FileNotFoundError", seeds, trainOut, repo, {"seeds"}) }
    ELSE IF fail = "convert.py"
    THEN { T("CalledProcessError", seeds, trainOut, repo, {"seeds", "convert.py"}) }
    ELSE IF fail = "main.py"
    THEN { T("CalledProcessError", seeds, out, repo, {"seeds", "convert.py", "main.py"})
             : out \in FailedOutputs }
    ELSE { T("ok", seeds, out, repo, {"seeds", "convert.py", "main.py"}) : out \in ForestOutputs }

\* SixGraphTGA.train(ipv6_addresses)
SixGraphTrain(seeds, fail) ==
    IF EnvCheck # "ok" THEN { T(EnvCheck, seedsFile, trainOut, repo, {}) }
    ELSE IF repo = "absent" THEN { T("FileNotFoundError", seedsFile, trainOut, repo, {}) }
    ELSE IF FirstBad(seeds) <= Len(seeds)
    THEN { T("ValueError", ExplodedPrefix(seeds), trainOut, repo, {"seeds"}) }
    ELSE IF ~venv THEN { T("FileNotFoundError", ExplodedPrefix(seeds), trainOut, repo, {"seeds"}) }
    ELSE IF fail = "convert.py" \/ repo = "bare"
    THEN { T("RuntimeError", ExplodedPrefix(seeds), trainOut, repo, {"seeds", "convert.py"}) }
    ELSE IF fail = "main.py"
    THEN { T("RuntimeError", ExplodedPrefix(seeds), trainOut, repo,
             {"seeds", "convert.py", "main.py"}) }
    ELSE { T("ok", ExplodedPrefix(seeds), out, repo, {"seeds", "convert.py", "main.py"})
             : out \in GraphOutputs }

\* EntropyIp._write_ips_file(ips, filepath): the lines written
_write_ips_file(ips) == [i \in 1..Len(ips) |-> NoColons(ips[i])]

\* EntropyIp.train(ipv6_addresses)
EntropyTrain(seeds, fail) ==
    IF EnvCheck # "ok" THEN { T(EnvCheck, seedsFile, trainOut, repo, {}) }
    ELSE IF repo = "absent" THEN { T("FileNotFoundError", seedsFile, trainOut, repo, {}) }
    ELSE IF ~venv THEN { T("RuntimeError", _write_ips_file(seeds), trainOut, repo, {"seeds"}) }
    ELSE IF fail = "a1-segments.py" \/ repo = "bare"
    THEN { T("CalledProcessError", _write_ips_file(seeds), trainOut, repo,
             {"seeds", "a1-segments.py"}) }
    ELSE { T("ok", _write_ips_file(seeds), trainOut, repo, {"seeds", "a1-segments.py"}) }

\* SixGANTGA.train(ipv6_addresses)
SixGANTrain(seeds, fail) ==
    IF EnvCheck # "ok" THEN { T(EnvCheck, seedsFile, trainOut, repo, {}) }
    ELSE IF repo # "cloned"
    THEN { T("ok", seeds, trainOut, "bare", {"seeds"}) }       \* os.makedirs; no train.py
    ELSE IF ~venv THEN { T("FileNotFoundError", seeds, trainOut, repo, {"seeds"}) }
    ELSE IF fail = "train.py"
    THEN { T("CalledProcessError", seeds, trainOut, repo, {"seeds", "train.py"}) }
    ELSE { T("ok", seeds, out, repo, {"seeds", "train.py"}) : out \in GanOutputs }

\* SixDETTGA.train(ipv6_addresses): os.makedirs(output_dir), then the validated seeds
SixDETTrain(seeds, fail) ==
    IF EnvCheck # "ok" THEN { T(EnvCheck, seedsFile, trainOut, repo, {}) }
    ELSE LET rp == IF repo = "absent" THEN "bare" ELSE repo IN
         IF FirstBad(seeds) <= Len(seeds)
         THEN { T("ValueError", ExplodedPrefix(seeds), trainOut, rp, {"seeds"}) }
         ELSE { T("ok", ExplodedPrefix(seeds), trainOut, rp, {"seeds"}) }

\* SixForestTGA.train(seeds) of _old/tgas/sixforest.py
OldSixForestTrain(seeds, fail) ==
    IF fail = "convert.py" \/ repo # "cloned"
    THEN { T("CalledProcessError", seeds, trainOut, repo, {"seeds", "convert.py"}) }
    ELSE IF fail = "main.py"
    THEN { T("CalledProcessError", seeds, out, repo, {"seeds", "convert.py", "main.py"})
             : out \in FailedOutputs }
    ELSE { T("ok", seeds, out, repo, {"seeds", "convert.py", "main.py"}) : out \in ForestOutputs }

TrainOf(impl, seeds, fail) ==
    CASE impl = "TGA"             -> { T("ok", seedsFile, trainOut, repo, {}) }   \* pass
      [] impl = "EntropyIp"       -> EntropyTrain(seeds, fail)
      [] impl = "SixForestTGA"    -> SixForestTrain(seeds, fail)
      [] impl = "SixGraphTGA"     -> SixGraphTrain(seeds, fail)
      [] impl = "SixGANTGA"       -> SixGANTrain(seeds, fail)
      [] impl = "SixDETTGA"       -> SixDETTrain(seeds, fail)
      [] impl = "OldSixForestTGA" -> OldSixForestTrain(seeds, fail)

\* tga.train(ipv6_addresses)
Train(seeds, fail) ==
    \E r \in TrainOf(lifeImpl, seeds, fail) :
        /\ seedsFile' = r.seedsFile
        /\ trainOut' = r.trainOut
        /\ repo' = r.repo
        /\ lifeCall' = LifeCall("train", r.outcome, r.work, <<>>)
        /\ UNCHANGED <<lifeImpl, fileSaysX86, env_python, initialized, toolkit, venv, files>>
        /\ lifeFrame

\* ---- generate(count) ----
\* ':'.join(full_address[i:i+4] for i in range(0, len(full_address), 4))
JoinColons(line) ==
    LET n == Len(line)
        m == n + ((n - 1) \div 4)
    IN  [i \in 1..m |-> IF i % 5 = 0 THEN ":" ELSE line[i - (i \div 5)]]

\* [line.strip() for line in f if line.strip()]
NonEmpty(lines) == SelectSeq(lines, LAMBDA l : l # <<>>)
IsRegion(line) == \E i \in 1..Len(line) : line[i] = "Region"
HasStar(line) == \E i \in 1..Len(line) : line[i] = "*"

\* the line below each "Region" divider, when it holds a '*'
RECURSIVE PartialsFrom(_, _)
PartialsFrom(lines, i) ==
    IF i > Len(lines) THEN <<>>
    ELSE (IF IsRegion(lines[i]) /\ i + 1 <= Len(lines) /\ HasStar(lines[i + 1])
          THEN <<lines[i + 1]>> ELSE <<>>) \o PartialsFrom(lines, i + 1)
partial_addresses(out) == PartialsFrom(NonEmpty(out), 1)

G(outcome, ret) == [outcome |-> outcome, ret |-> ret]

\* the loop "while len(full_addresses) < count" over partial_addresses
ForestLoop(partials, n) ==
    IF n <= 0 THEN { G("ok", <<>>) }
    ELSE IF partials = <<>> THEN { G("hangs", <<>>) }
    ELSE LET Samples(k) == { JoinColons(f) : f \in Fills(partials[((k - 1) % Len(partials)) + 1]) }
         IN  { G("ok", r) : r \in { x \in [1..n -> UNION { Samples(k) : k \in 1..n }] :
                                       \A k \in 1..n : x[k] \in Samples(k) } }

\* SixForestTGA.generate(count)
SixForestGenerate(n) ==
    IF trainOut = NoFile THEN { G("ok", <<>>) }
    ELSE ForestLoop(partial_addresses(trainOut), n)

\* SixForestTGA.generate(count) of _old/tgas/sixforest.py
OldSixForestGenerate(n) ==
    IF trainOut = NoFile THEN { G("FileNotFoundError", <<>>) }
    ELSE ForestLoop(partial_addresses(trainOut), n)

\* pat_re = ^[0-9a-f\*]{32}$
IsPattern(line) ==
    /\ Len(line) = AddrLen
    /\ \A i \in 1..Len(line) : line[i] = "*" \/ \E j \in 1..Len(HexChars) : line[i] = HexChars[j]

\* sample_ip(pat) of SixGraphTGA.generate: fill, int(filled, 16), .exploded
GraphSample(pat) == { JoinColons(f) : f \in Fills(pat) }

\* SixGraphTGA.generate(count)
SixGraphGenerate(n) ==
    IF trainOut = NoFile THEN { G("FileNotFoundError", <<>>) }
    ELSE LET patterns == SelectSeq(trainOut, IsPattern) IN
         IF patterns = <<>> THEN { G("RuntimeError", <<>>) }
         ELSE { G("ok", r) : r \in [1..n -> UNION { GraphSample(patterns[i]) : i \in 1..Len(patterns) }] }

\* SixGANTGA.generate(count): re.search(r'_epoch_(\d+)\\.txt', ...) finds nothing
SixGANGenerate(n) ==
    IF EnvCheck # "ok" THEN { G(EnvCheck, <<>>) }
    ELSE IF trainOut = NoFile THEN { G("RuntimeError", <<>>) }
    ELSE { G("AttributeError", <<>>) }

\* zmap/scan_output_*.txt after a run of DynamicScan.py: the addresses found
DiscoveredSets == { {}, {Rep("0", 8)}, {Rep("0", 8), Rep("1", 8)} }

\* SixDETTGA.generate(count)
SixDETGenerate(n) ==
    IF EnvCheck # "ok" THEN { G(EnvCheck, <<>>) }
    ELSE IF seedsFile = Absent \/ seedsFile = <<>> THEN { G("RuntimeError", <<>>) }
    ELSE IF ~venv THEN { G("FileNotFoundError", <<>>) }
    ELSE { G("RuntimeError", <<>>) }                      \* DynamicScan.py failed
         \cup (IF repo # "cloned" THEN {}
               ELSE UNION { { G("ok", r) : r \in ListsOf(d) } : d \in DiscoveredSets })

GenerateOf(impl, n) ==
    CASE impl = "TGA"             -> { G("ok", <<>>) }          \* return []
      [] impl = "EntropyIp"       -> { G("ok", <<>>) }          \* return []
      [] impl = "SixForestTGA"    -> SixForestGenerate(n)
      [] impl = "SixGraphTGA"     -> SixGraphGenerate(n)
      [] impl = "SixGANTGA"       -> SixGANGenerate(n)
      [] impl = "SixDETTGA"       -> SixDETGenerate(n)
      [] impl = "OldSixForestTGA" -> OldSixForestGenerate(n)

\* tga.generate(count)
Generate(n) ==
    \E r \in GenerateOf(lifeImpl, n) :
        /\ lifeCall' = [LifeCall("generate", r.outcome, {}, r.ret) EXCEPT !.count = n]
        /\ UNCHANGED <<lifeImpl, fileSaysX86, env_python, initialized, repo, toolkit, venv,
                       files, seedsFile, trainOut>>
        /\ lifeFrame

\* TGA.clean()
Clean ==
    /\ lifeImpl \in TgasImpls
    /\ repo' = "absent"
    /\ venv' = FALSE
    /\ files' = NoSources
    /\ seedsFile' = Absent
    /\ trainOut' = NoFile
    /\ lifeCall' = LifeCall("clean", "ok", IF repo # "absent" THEN {"rm -rf"} ELSE {}, <<>>)
    /\ UNCHANGED <<lifeImpl, fileSaysX86, env_python, initialized, toolkit>>
    /\ lifeFrame

\* TGA.__init__ / EntropyIp.__init__: the attributes of a fresh instance
FreshEnv(impl) ==
    CASE impl = "EntropyIp"       -> None
      [] impl = "OldSixForestTGA" -> VenvPython
      [] OTHER                    -> "unset"

\* a later run of the program builds the instance again over the same disk
NewInstance ==
    /\ lifeCall.op # "none"
    /\ env_python' = FreshEnv(lifeImpl)
    /\ initialized' = FALSE
    /\ lifeCall' = NoLifeCall
    /\ UNCHANGED <<lifeImpl, fileSaysX86, repo, toolkit, venv, files, seedsFile, trainOut>>
    /\ lifeFrame

LifeInit ==
    /\ lifeImpl \in LifeImpls
    /\ fileSaysX86 \in BOOLEAN
    /\ env_python = FreshEnv(lifeImpl)
    /\ initialized = FALSE
    /\ repo = "absent"
    /\ toolkit = FALSE
    /\ venv = FALSE
    /\ files = NoSources
    /\ seedsFile = Absent
    /\ trainOut = NoFile
    /\ lifeCall = NoLifeCall

LifeIdle == LifeInit /\ lifeImpl = "TGA" /\ ~fileSaysX86

NextLifecycle ==
    \/ \E fail \in InitFails(lifeImpl) : Initialize(fail)
    \/ \E seeds \in SeedLists, fail \in TrainFails(lifeImpl) : Train(seeds, fail)
    \/ \E n \in 0..MaxGen : Generate(n)
    \/ Clean
    \/ NewInstance

(***************************************************************************)
(*                          THE main() DISPATCHERS                         *)
(***************************************************************************)

DispImpls == {"old_main", "main", "cli"}

\* keys of TGAS that both main.py files hold, and a name neither holds
TgaTable == {"6Forest", "6Graph"}
UnknownTga == "nope"

\* _old/main.py:44
OldActions == {"setup", "train", "generate", "run", "clean"}
\* main.py:221
MainActions == {"initialize", "train", "generate"}
\* the values args.action is drawn from
CliActions == OldActions \cup MainActions \cup {"help"}

\* what parser.parse_args() hands to main()
Args == [action : CliActions, tga_name : TgaTable \cup {UnknownTga}, seeds : BOOLEAN]

\* how the plugin's setup() can end: before or after its clone directory exists
SetupOutcomes == {"ok", "raises before clone", "raises after clone"}
\* how any other plugin method can end
MethodOutcomes == {"ok", "raises"}

Ran(calls, exit, error, setup, dirs, conf) ==
    [calls |-> calls, exit |-> exit, error |-> error, setup |-> setup,
     cloneDirs |-> dirs, configured |-> conf, instantiated |-> {}, output |-> "none"]

\* the run constructed the plugin objects named
Built(r, names) == [r EXCEPT !.instantiated = names]

\* main() ended without calling the plugin
Quit(exit, error) == Ran(<<>>, exit, error, "not run", cloneDirs, configured)

\* an uncaught exception ends the interpreter with status 1
ExitOf(outcome) == IF outcome = "ok" THEN 0 ELSE 1
ErrorOf(outcome) == IF outcome = "ok" THEN None ELSE "Exception"

\* ensure_setup(tga, log_filename): tga.setup()
ensure_setup(t, so) ==
    Ran(<<"setup">>, ExitOf(so), ErrorOf(so), IF so = "ok" THEN "ok" ELSE "failed",
        IF so = "raises before clone" THEN cloneDirs ELSE cloneDirs \cup {t},
        IF so = "ok" THEN configured \cup {t} ELSE configured)

\* main() of _old/main.py without the TGAS.get(tga_name) test
OldMainRunNoLookup(args, so, mo) ==
    LET a == args.action
        t == args.tga_name
    IN  IF a \notin OldActions THEN Quit(0, None)
        ELSE IF a = "setup" THEN Built(ensure_setup(t, so), {t})
        ELSE Built(Ran(<<a>>, ExitOf(mo), ErrorOf(mo), "not run", cloneDirs, configured), {t})

\* main() of _old/main.py
OldMainRun(args, so, mo) ==
    LET a == args.action
        t == args.tga_name
        s == IF t \in cloneDirs THEN Quit(0, None) ELSE ensure_setup(t, so)
        tga == {t}                                                   \* tga = tga_cls()
    IN  IF a \notin OldActions THEN Quit(0, None)                   \* parser.print_help()
        ELSE IF t \notin TgaTable THEN Quit(1, "Unknown TGA")
        ELSE Built(
        IF a = "setup" THEN ensure_setup(t, so)
        ELSE IF a = "clean"
        THEN IF mo = "ok"
             THEN Ran(<<"clean">>, 0, None, "not run", cloneDirs \ {t}, configured \ {t})
             ELSE Ran(<<"clean">>, 1, "Exception", "not run", cloneDirs, configured)
        ELSE IF s.exit # 0 THEN s
        ELSE IF a = "generate"
        THEN Ran(s.calls \o <<"generate">>, ExitOf(mo), ErrorOf(mo), s.setup,
                 s.cloneDirs, s.configured)
        ELSE IF ~args.seeds
        THEN Ran(s.calls, 1, "Must specify --seeds", s.setup, s.cloneDirs, s.configured)
        ELSE Ran(s.calls \o <<a>>, ExitOf(mo), ErrorOf(mo), s.setup, s.cloneDirs, s.configured), tga)

\* main() of main.py: tga.train() and tga.generate() are called without their argument
MainRun(args, mo) ==
    LET a == args.action
        t == args.tga_name
    IN  Built(
        IF a \notin MainActions THEN Quit(0, None)                  \* parser.print_help()
        ELSE IF t \notin TgaTable THEN Quit(1, "Unknown TGA")
        ELSE IF a = "initialize"
        THEN IF mo = "ok"
             THEN Ran(<<"initialize">>, 0, None, "ok", cloneDirs \cup {t}, configured \cup {t})
             ELSE Ran(<<"initialize">>, 1, "Exception", "failed", cloneDirs, configured)
        ELSE Ran(<<a>>, 1, "TypeError", "not run", cloneDirs, configured),
        TgaTable)                                   \* TGAS holds instances built at import

\* the attributes a run sets on the object of the selected plugin
SetBy(r) ==
    IF dispImpl = "old_main"
    THEN IF r.calls # <<>> /\ r.calls # <<"clean">> THEN {"log"} ELSE {}   \* tga.log = ...
    ELSE IF dispImpl = "main"
    THEN IF r.calls = <<"initialize">> /\ r.exit = 0 THEN {"env_python"} ELSE {}
    ELSE {}

\* a dispatcher that hands out the object it built for the name before
InstantiateKept(t) == instance[t]

\* tga_cls(), TGA(url) at import, plugin_cls(**plugin_init_args): the attributes
\* set on the object beyond its constructor's
Instantiate(t) == {}

Invocation(args, r, before) ==
    [action |-> args.action, tga_name |-> args.tga_name, seeds |-> args.seeds,
     calls |-> r.calls, exit |-> r.exit, error |-> r.error, setup |-> r.setup,
     instantiated |-> r.instantiated, output |-> r.output,
     seen |-> IF args.tga_name \in r.instantiated THEN Instantiate(args.tga_name) ELSE {},
     left |-> IF args.tga_name \in DOMAIN instance THEN instance[args.tga_name] ELSE {},
     configuredBefore |-> before]
NoInvocation ==
    [action |-> "none", tga_name |-> "none", seeds |-> FALSE,
     calls |-> <<>>, exit |-> 0, error |-> None, setup |-> "not run",
     instantiated |-> {}, output |-> "none", seen |-> {}, left |-> {},
     configuredBefore |-> FALSE]

Finish(args, r) ==
    /\ cloneDirs' = r.cloneDirs
    /\ configured' = r.configured
    /\ instance' = [n \in DOMAIN instance |->
                        IF n \notin r.instantiated THEN instance[n]
                        ELSE IF n = args.tga_name THEN Instantiate(n) \cup SetBy(r)
                        ELSE Instantiate(n)]
    /\ invocation' = Invocation(args, r, args.tga_name \in configured)
    /\ UNCHANGED <<dispImpl, scanCall>>
    /\ dispFrame

\* python _old/main.py <action> <tga_name> ...
OldMain(args, so, mo) ==
    /\ dispImpl = "old_main"
    /\ Finish(args, OldMainRun(args, so, mo))

\* python main.py <action> <tga_name> ...
Main(args, mo) ==
    /\ dispImpl = "main"
    /\ Finish(args, MainRun(args, mo))

\* build_parser(tgas): the command lines the parser lets through.  Every one of
\* the five actions is a subcommand with the table's names below it; train
\* requires --seeds, run is given no --seeds option at all.
Accepted(args) ==
    /\ args.action \in OldActions
    /\ args.tga_name \in TgaTable
    /\ (args.action = "train" => args.seeds)
    /\ (args.action = "run" => ~args.seeds)

\* ---- cli/main.py and the local runner ----
ScanPlugin == "zmap6"
\* --input-file: not given, names no file, holds bad JSON, or parses
InputFiles == {"none", "missing", "bad", "good"}
\* plugin_cls(**plugin_init_args)
InitOutcomes == {"ok", "raises"}
\* plugin_instance.run(...): a model, a dict that validates or not, or an exception
RunOutcomes == {"model", "dict", "bad dict", "raises"}
\* --output-file: not given, writable, or not writable
OutputFiles == {"none", "ok", "unwritable"}

X(calls, outcome) == [calls |-> calls, outcome |-> outcome]

\* LocalRunner.execute with a second try of run() after a failure
executeRetry(init, run) ==
    IF init = "raises" THEN X(<<"__init__">>, "Exception")
    ELSE IF run = "raises" THEN X(<<"__init__", "run", "run">>, "ok")
    ELSE IF run = "bad dict" THEN X(<<"__init__", "run">>, "ValidationError")
    ELSE X(<<"__init__", "run">>, "ok")

\* LocalRunner.execute(plugin_cls, plugin_init_args, run_method_args, input_data)
execute(init, run) ==
    IF init = "raises" THEN X(<<"__init__">>, "Exception")
    ELSE IF run = "raises" THEN X(<<"__init__", "run">>, "Exception")
    ELSE IF run = "bad dict" THEN X(<<"__init__", "run">>, "ValidationError")
    ELSE X(<<"__init__", "run">>, "ok")

\* handle_plugin_execution(args)
HandleRun(input_type, input_file, init, run, output_file) ==
    IF input_type /\ input_file = "missing" THEN Quit(1, "Input file not found")
    ELSE IF input_type /\ input_file = "bad" THEN Quit(1, "Failed to parse input file")
    ELSE LET x == execute(init, run) IN
         IF x.outcome # "ok"
         THEN Ran(x.calls, 1, x.outcome, "not run", cloneDirs, configured)
         ELSE [Built(Ran(x.calls, 0, None, "not run", cloneDirs, configured), {ScanPlugin})
                 EXCEPT !.output = IF output_file = "ok" THEN "file" ELSE "stdout"]

\* python cli/main.py scan <plugin> ...
HandlePluginExecution(input_type, input_file, init, run, output_file) ==
    /\ dispImpl = "cli"
    /\ Finish([action |-> "run", tga_name |-> ScanPlugin, seeds |-> input_file # "none"],
              LET r == HandleRun(input_type, input_file, init, run, output_file) IN
              IF r.calls # <<>> THEN Built(r, {ScanPlugin}) ELSE r)

\* ---- rmap scanner plugins ----
MaxAddrs == 2
ScanImpls == {"ScanPlugin", "Zmap6TCPSYNScanner"}
AddressLists == UNION { [1..n -> {"2001:db8::1"}] : n \in 0..MaxAddrs }
\* what BasePlugin gives an instance: __init__ sets _logger and nothing else
BasePluginAttrs == {"_logger", "name", "version", "description"}
\* the names bound inside BaseZmap6Scanner.scan(self, data, **kwargs)
ScanLocals == {"self", "data", "kwargs", "plugin_display_name"}
\* how zmap6 can end: [status, rows written to the output file]
ZmapRuns == { [returncode |-> 0, rows |-> 0], [returncode |-> 0, rows |-> 1],
              [returncode |-> 1, rows |-> 0] }

S(outcome, results, scan_name, tempFiles, processes) ==
    [outcome |-> outcome, results |-> results, scan_name |-> scan_name,
     tempFiles |-> tempFiles, processes |-> processes]

\* ScanPlugin.scan(addrs): pass
ScanPluginScan(addresses) == S("ok", None, None, 0, 0)

\* BaseZmap6Scanner.scan(data)
Zmap6Scan(addresses, zmap) ==
    IF addresses = <<>>
    THEN IF "info" \notin BasePluginAttrs THEN S("AttributeError", None, None, 0, 0)
         ELSE IF "progress_cb" \notin ScanLocals THEN S("NameError", None, None, 0, 0)
         ELSE S("ok", <<>>, "zmap6tcpsyn_tcp_80", 0, 0)
    ELSE IF "_progress_bars_enabled" \notin BasePluginAttrs
    THEN S("AttributeError", None, None, 0, 0)
    ELSE IF "update_progress_bar" \notin BasePluginAttrs
    THEN S("AttributeError", None, None, 2, 0)       \* raised inside try: finally removes both files
    ELSE S("ok", [i \in 1..zmap.rows |-> addresses[1]], "zmap6tcpsyn_tcp_80", 2, 1)

\* the port arguments a scanner is constructed with
MinPort == 1
MaxPort == 65535
Ports == {0, MinPort, 80, MaxPort, MaxPort + 1}

\* Zmap6TCPSYNScanner._port_must_be_valid(cls, v): a method nothing calls
_port_must_be_valid(v) == IF ~(MinPort <= v /\ v <= MaxPort) THEN "ValueError" ELSE "ok"

\* Zmap6TCPSYNScanner.__init__(port, ...): super().__init__(...); self.port = port
Zmap6TCPSYNScanner(port) == [outcome |-> "ok", port |-> port]

NoScan == [impl |-> "none", addresses |-> <<>>, outcome |-> "none", results |-> None,
           scan_name |-> None, tempFiles |-> 0, processes |-> 0,
           constructed |-> FALSE, port |-> 0]

\* plugin.scan(AddressSet(name=..., addresses=addresses))
Scan(impl, port, addresses, zmap) ==
    /\ dispImpl = "cli"
    /\ LET new == IF impl = "ScanPlugin" THEN [outcome |-> "ok", port |-> 0]
                  ELSE Zmap6TCPSYNScanner(port)
           r == IF new.outcome # "ok" THEN S(new.outcome, None, None, 0, 0)
                ELSE IF impl = "ScanPlugin" THEN ScanPluginScan(addresses)
                ELSE Zmap6Scan(addresses, zmap)
       IN  scanCall' = [impl |-> impl, addresses |-> addresses, outcome |-> r.outcome,
                        results |-> r.results, scan_name |-> r.scan_name,
                        tempFiles |-> r.tempFiles, processes |-> r.processes,
                        constructed |-> new.outcome = "ok", port |-> new.port]
    /\ UNCHANGED <<dispImpl, cloneDirs, configured, instance, invocation>>
    /\ dispFrame

DispInit ==
    /\ scanCall = NoScan
    /\ dispImpl \in DispImpls
    /\ cloneDirs = {}
    /\ configured = {}
    /\ instance = [n \in TgaTable \cup {ScanPlugin} |-> {}]
    /\ invocation = NoInvocation

DispIdle == DispInit /\ dispImpl = "main"

NextDispatch ==
    \/ \E args \in Args, so \in SetupOutcomes, mo \in MethodOutcomes : OldMain(args, so, mo)
    \/ \E args \in Args, mo \in MethodOutcomes : Main(args, mo)
    \/ \E input_type \in BOOLEAN, input_file \in InputFiles, init \in InitOutcomes,
          run \in RunOutcomes, output_file \in OutputFiles :
          HandlePluginExecution(input_type, input_file, init, run, output_file)
    \/ \E impl \in ScanImpls, port \in Ports, addresses \in AddressLists, zmap \in ZmapRuns :
          Scan(impl, port, addresses, zmap)

(***************************************************************************)
(*                     CONCURRENT INVOCATIONS OF ONE TGA                   *)
(* Several processes run train() and then generate() of the same class on *)
(* the same checkout.  A step is one file operation or one subprocess of  *)
(* the handler: the operating system interleaves the processes between    *)
(* them.  A file's content is named by the invocation whose seeds it was  *)
(* derived from; 0 is a file that does not exist.                         *)
(***************************************************************************)
MaxProcs == 2
Procs == 1..MaxProcs
WsImpls == {"SixGraphTGA", "SixDETTGA"}
WsFiles == {"seeds", "seeds.npy", "patterns.txt", "seeds.txt"}

\* os.path.join(self.clone_directory, self.repo_name, ...): the path does not
\* depend on the invocation
PathOf(p, name) == name

P(pc, stdout, res) == [pc |-> pc, stdout |-> stdout, result |-> res]

Step(p, pc, stdout, res) ==
    /\ wsProc' = [wsProc EXCEPT ![p] = P(pc, stdout, res)]
    /\ UNCHANGED wsImpl
    /\ wsFrame

\* train(): with open(seeds_file, "w") as f: ... f.write(full)
WsWriteSeeds(p) ==
    /\ wsProc[p].pc = "start"
    /\ wsFile' = [wsFile EXCEPT ![PathOf(p, IF wsImpl = "SixGraphTGA" THEN "seeds" ELSE "seeds.txt")] = p]
    /\ Step(p, IF wsImpl = "SixGraphTGA" THEN "seeds written" ELSE "trained", 0, 0)

\* SixGraphTGA.train(): convert.py reads seeds and writes seeds.npy
WsConvert(p, ok) ==
    /\ wsImpl = "SixGraphTGA" /\ wsProc[p].pc = "seeds written"
    /\ IF ok
       THEN /\ wsFile' = [wsFile EXCEPT ![PathOf(p, "seeds.npy")] = wsFile[PathOf(p, "seeds")]]
            /\ Step(p, "converted", 0, 0)
       ELSE /\ UNCHANGED wsFile
            /\ Step(p, "RuntimeError", 0, 0)

\* SixGraphTGA.train(): main.py reads seeds.npy and prints the patterns
WsMainPy(p, ok) ==
    /\ wsImpl = "SixGraphTGA" /\ wsProc[p].pc = "converted"
    /\ UNCHANGED wsFile
    /\ IF ok THEN Step(p, "patterns printed", wsFile[PathOf(p, "seeds.npy")], 0)
             ELSE Step(p, "RuntimeError", 0, 0)

\* SixGraphTGA.train(): with open(patterns_txt, "w") as f: f.write(run.stdout)
WsWritePatterns(p) ==
    /\ wsImpl = "SixGraphTGA" /\ wsProc[p].pc = "patterns printed"
    /\ wsFile' = [wsFile EXCEPT ![PathOf(p, "patterns.txt")] = wsProc[p].stdout]
    /\ Step(p, "trained", wsProc[p].stdout, 0)

\* SixGraphTGA.generate(count): reads patterns.txt and samples from its patterns
WsGraphGenerate(p) ==
    /\ wsImpl = "SixGraphTGA" /\ wsProc[p].pc = "trained"
    /\ UNCHANGED wsFile
    /\ IF wsFile[PathOf(p, "patterns.txt")] = 0
       THEN Step(p, "FileNotFoundError", wsProc[p].stdout, 0)
       ELSE Step(p, "generated", wsProc[p].stdout, wsFile[PathOf(p, "patterns.txt")])

\* SixDETTGA.generate(count): DynamicScan.py scans from seeds.txt
WsDetGenerate(p, ok) ==
    /\ wsImpl = "SixDETTGA" /\ wsProc[p].pc = "trained"
    /\ UNCHANGED wsFile
    /\ IF wsFile[PathOf(p, "seeds.txt")] = 0 \/ ~ok
       THEN Step(p, "RuntimeError", 0, 0)
       ELSE Step(p, "generated", 0, wsFile[PathOf(p, "seeds.txt")])

\* the next invocation of the same process slot
WsAgain(p) ==
    /\ wsProc[p].pc \in {"generated", "RuntimeError", "FileNotFoundError"}
    /\ UNCHANGED wsFile
    /\ Step(p, "start", 0, 0)

WsInit ==
    /\ wsImpl \in WsImpls
    /\ wsFile = [f \in WsFiles |-> 0]
    /\ wsProc = [p \in Procs |-> P("start", 0, 0)]

WsIdle == WsInit /\ wsImpl = "SixGraphTGA"

NextWorkspace ==
    \/ \E p \in Procs : WsWriteSeeds(p)
    \/ \E p \in Procs, ok \in BOOLEAN : WsConvert(p, ok)
    \/ \E p \in Procs, ok \in BOOLEAN : WsMainPy(p, ok)
    \/ \E p \in Procs : WsWritePatterns(p)
    \/ \E p \in Procs : WsGraphGenerate(p)
    \/ \E p \in Procs, ok \in BOOLEAN : WsDetGenerate(p, ok)
    \/ \E p \in Procs : WsAgain(p)

(***************************************************************************)
(*            THE PROGRESS BARS OF ONE CORE BasePlugin INSTANCE            *)
(***************************************************************************)
MaxPosition == 3                 \* cap on _next_progress_bar_position
MaxAdvance == 2                  \* cap on the count a bar is advanced to
BarNames == {"scan", "parse"}
\* the position argument: None, or an explicit position
Positions == {[given |-> FALSE, at |-> 0]} \cup {[given |-> TRUE, at |-> p] : p \in 0 .. 1}
TqdmOutcomes == {"ok", "Exception"}         \* what tqdm.tqdm(...) does

NoBars == [n \in {} |-> [position |-> 0, n |-> 0]]     \* {}
NoBarCall == [op |-> "none", name |-> None, ret |-> None, warned |-> FALSE]

\* BasePlugin.__init__
BasePluginInit(progress_bars_enabled, TQDM_AVAILABLE) ==
    /\ _progress_bars_enabled = (progress_bars_enabled /\ TQDM_AVAILABLE)
    /\ _progress_bars = NoBars
    /\ _next_progress_bar_position = 0
    /\ barCall = NoBarCall

B(ret, bars, next, warned) ==
    [ret |-> ret, bars |-> bars, next |-> next, warned |-> warned]

\* add_progress_bar without the test for a bar already open under the name
add_progress_bar_again(name, position, tqdm) ==
    IF ~_progress_bars_enabled
    THEN B(None, _progress_bars, _next_progress_bar_position, FALSE)
    ELSE LET auto == ~position.given
             pos == IF auto THEN _next_progress_bar_position ELSE position.at
             next == IF auto THEN _next_progress_bar_position + 1
                     ELSE _next_progress_bar_position
         IN  IF tqdm = "ok"
             THEN B(name, [k \in DOMAIN _progress_bars \cup {name} |->
                              IF k = name THEN [position |-> pos, n |-> 0]
                              ELSE _progress_bars[k]],
                    next, FALSE)
             ELSE B(None, _progress_bars, next, FALSE)

\* BasePlugin.add_progress_bar: what it returns and what it leaves on self
add_progress_bar(name, position, tqdm) ==
    IF ~_progress_bars_enabled
    THEN B(None, _progress_bars, _next_progress_bar_position, FALSE)
    ELSE IF name \in DOMAIN _progress_bars
    THEN B(name, _progress_bars, _next_progress_bar_position, TRUE)
    ELSE LET auto == ~position.given
             pos == IF auto THEN _next_progress_bar_position ELSE position.at
             next == IF auto THEN _next_progress_bar_position + 1
                     ELSE _next_progress_bar_position
         IN  IF tqdm = "ok"
             THEN B(name, [k \in DOMAIN _progress_bars \cup {name} |->
                              IF k = name THEN [position |-> pos, n |-> 0]
                              ELSE _progress_bars[k]],
                    next, FALSE)
             ELSE B(None, _progress_bars, next, FALSE)

AddProgressBar(name, position, tqdm) ==
    LET r == add_progress_bar(name, position, tqdm) IN
    /\ r.next <= MaxPosition
    /\ _progress_bars' = r.bars
    /\ _next_progress_bar_position' = r.next
    /\ barCall' = [op |-> "add", name |-> name, ret |-> r.ret, warned |-> r.warned]
    /\ UNCHANGED _progress_bars_enabled
    /\ barFrame

\* BasePlugin.update_progress_bar(handle, advance)
UpdateProgressBar(handle, advance) ==
    /\ IF ~_progress_bars_enabled \/ handle = None \/ handle \notin DOMAIN _progress_bars
       THEN UNCHANGED _progress_bars
       ELSE /\ _progress_bars[handle].n + advance <= MaxAdvance
            /\ _progress_bars' = IF advance > 0
                                 THEN [_progress_bars EXCEPT ![handle].n = @ + advance]
                                 ELSE _progress_bars
    /\ barCall' = [op |-> "update", name |-> handle, ret |-> None, warned |-> FALSE]
    /\ UNCHANGED <<_progress_bars_enabled, _next_progress_bar_position>>
    /\ barFrame

\* BasePlugin.close_progress_bar(handle): the position is not reclaimed
CloseProgressBar(handle) ==
    /\ IF ~_progress_bars_enabled \/ handle = None \/ handle \notin DOMAIN _progress_bars
       THEN UNCHANGED _progress_bars
       ELSE _progress_bars' = [k \in DOMAIN _progress_bars \ {handle} |-> _progress_bars[k]]
    /\ barCall' = [op |-> "close", name |-> handle, ret |-> None, warned |-> FALSE]
    /\ UNCHANGED <<_progress_bars_enabled, _next_progress_bar_position>>
    /\ barFrame

\* BasePlugin.close_all_progress_bars
CloseAllProgressBars ==
    /\ IF ~_progress_bars_enabled
       THEN UNCHANGED <<_progress_bars, _next_progress_bar_position>>
       ELSE /\ _progress_bars' = NoBars
            /\ _next_progress_bar_position' = 0
    /\ barCall' = [op |-> "close_all", name |-> None, ret |-> None, warned |-> FALSE]
    /\ UNCHANGED _progress_bars_enabled
    /\ barFrame

BarInit == \E progress_bars_enabled \in BOOLEAN, TQDM_AVAILABLE \in BOOLEAN :
               BasePluginInit(progress_bars_enabled, TQDM_AVAILABLE)
BarIdle == BasePluginInit(FALSE, TRUE)

NextProgress ==
    \/ \E name \in BarNames, position \in Positions, tqdm \in TqdmOutcomes :
          AddProgressBar(name, position, tqdm)
    \/ \E handle \in BarNames \cup {None}, advance \in 0 .. 1 :
          UpdateProgressBar(handle, advance)
    \/ \E handle \in BarNames \cup {None} : CloseProgressBar(handle)
    \/ CloseAllProgressBars

vars == <<regVars, samVars, lifeVars, dispVars, wsVars, barVars>>

Init == RegInit /\ SamIdle /\ LifeIdle /\ DispIdle /\ WsIdle /\ BarIdle

Next ==
    \/ \E kind \in RegKinds \cup {BadKind}, name \in GivenNames \cup {None},
          cls \in PluginClasses \cup OtherClasses : ipv6kit(kind, name, cls)
    \/ \E kind \in RegKinds, name \in GivenNames \cup {None},
          cls \in PluginClasses \cup OtherClasses : rmap(kind, name, cls)
    \/ \E name \in TgaNames, description \in Descriptions, cls \in TgaClasses :
          register_tga(name, description, cls)
    \/ \E kind \in RegKinds, name \in RegKeys : LookupPlugin(kind, name)
    \/ \E name \in TgaNames : LookupTga(name)
    \/ \E kind \in RegKinds, name \in RegKeys : CliMain(kind, name)
    \/ \E name \in TgaNames, aj \in AddressJsons, to \in TgaOutcomes : TrainTga(name, aj, to)
    \/ \E name \in TgaNames, mi \in ModelInfoJsons, to \in TgaOutcomes :
          GenerateTga(name, mi, to)
    \/ \E line \in RunnerLines, to \in TgaOutcomes : RunnerMain(line, to)

Spec == Init /\ [][Next]_vars

InitSampler == RegIdle /\ SamInit /\ LifeIdle /\ DispIdle /\ WsIdle /\ BarIdle

SpecSampler == InitSampler /\ [][NextSampler]_vars

InitLifecycle == RegIdle /\ SamIdle /\ LifeInit /\ DispIdle /\ WsIdle /\ BarIdle

SpecLifecycle == InitLifecycle /\ [][NextLifecycle]_vars

InitDispatch == RegIdle /\ SamIdle /\ LifeIdle /\ DispInit /\ WsIdle /\ BarIdle

SpecDispatch == InitDispatch /\ [][NextDispatch]_vars

InitWorkspace == RegIdle /\ SamIdle /\ LifeIdle /\ DispIdle /\ WsInit /\ BarIdle

SpecWorkspace == InitWorkspace /\ [][NextWorkspace]_vars

InitProgress == RegIdle /\ SamIdle /\ LifeIdle /\ DispIdle /\ WsIdle /\ BarInit

SpecProgress == InitProgress /\ [][NextProgress]_vars

(***************************************************************************)
(*                                CLAIMS                                   *)
(***************************************************************************)

\* (kind, name) is present in the loaded registry
Registered(k, n) ==
    IF regImpl = "tga_registry"
    THEN k = "tga" /\ n \in TgaNames /\ registry[n] # NoEntry
    ELSE k \in RegKinds /\ n \in RegKeys /\ PLUGINS[k][n] # None

\* the factory the loaded registry holds for (kind, name)
Factory(k, n) ==
    IF regImpl = "tga_registry"
    THEN (IF n \in TgaNames THEN registry[n].class ELSE None)
    ELSE (IF k \in RegKinds /\ n \in RegKeys THEN PLUGINS[k][n] ELSE None)

AllKeys == RegKeys \cup TgaNames

\* the step is a register call of a valid plugin class for (k, n)
RegisterStep(k, n) ==
    /\ regCall'.op = "register"
    /\ regCall'.kind = k
    /\ regCall'.name = n
    /\ regCall'.cls \in PluginClasses \cup TgaClasses

\* C1: once a plugin is registered under (kind, name), a second register call for
\* the same (kind, name) fails with a duplicate-registration error and leaves the
\* registry entry as it was.
C1_DuplicateRegistrationFails ==
    [][\A k \in RegKinds, n \in AllKeys :
          (Registered(k, n) /\ RegisterStep(k, n))
              => /\ regCall'.outcome = "ValueError: already registered"
                 /\ Factory(k, n)' = Factory(k, n)]_vars

\* C2: after (kind, name) has been registered, every later lookup of (kind, name)
\* returns the same factory, whatever register and lookup calls follow: no step
\* changes or removes the factory of a registered (kind, name).
C2_LookupStable ==
    [][\A k \in RegKinds, n \in AllKeys :
          Registered(k, n) => (Registered(k, n)' /\ Factory(k, n)' = Factory(k, n))]_vars

\* the elements of a list are pairwise distinct
Distinct(list) == \A i, j \in 1..Len(list) : list[i] = list[j] => i = j

\* the call that ran was a unique-sample generation that got past its model check
UniqueRun == unique /\ trained /\ samPc # "idle"

\* C3: for count >= 1 and a producer whose candidate space holds at least count
\* distinct valid values, unique-sample generation returns exactly count strings,
\* pairwise distinct.
C3_ExactlyCountDistinct ==
    (UniqueRun /\ samPc = "returned" /\ count >= 1
        /\ Cardinality(CandidateSpace) >= count)
        => (Len(result) = count /\ Distinct(result))

\* C4: for a producer whose candidate space has only M < count distinct valid
\* values, unique-sample generation ends in the failure InsufficientCandidates
\* {found: M, requested: count}: it never ends any other way.
C4_ExhaustionFails ==
    (UniqueRun /\ Cardinality(CandidateSpace) < count /\ samPc \in {"returned", "raised"})
        => (samPc = "raised" /\ samError = "InsufficientCandidates"
            /\ Cardinality(seen) = Cardinality(CandidateSpace))

\* C5: unique-sample generation is all-or-nothing: it never returns a result
\* that holds fewer than count addresses.
C5_AllOrNothing ==
    (UniqueRun /\ samPc = "returned") => Len(result) >= count

\* C6: generate on a static TGA that has never been trained fails (model not
\* trained); it never returns an address list.
C6_UntrainedGenerateFails ==
    (lifeImpl \in {"TGA", "SixForestTGA", "SixGraphTGA"}
        /\ lifeCall.op = "generate" /\ trainOut = NoFile)
        => lifeCall.outcome \notin {"ok"}

\* C7: generate with count == 0 fails with InvalidCount instead of returning an
\* empty address list.
C7_ZeroCountRejected ==
    (trained /\ samPc \in {"returned", "raised"} /\ count = 0)
        => (samPc = "raised" /\ samError = "InvalidCount")

\* nothing has been provisioned for the instance: no clone, no environment
NeverSetUp == ~initialized /\ repo = "absent" /\ ~venv

\* C8: train on an instance that was never set up fails with an
\* environment-not-ready error before any seed file is written and before any
\* external command is run.
C8_TrainNeedsSetup ==
    [][(lifeImpl \in {"EntropyIp", "SixGraphTGA", "OldSixForestTGA"}
          /\ NeverSetUp /\ lifeCall'.op = "train")
          => /\ lifeCall'.outcome # "ok"
             /\ lifeCall'.work = {}
             /\ seedsFile' = seedsFile]_vars

\* C9: for an action that needs a configured plugin (train, generate, run) on
\* a plugin that is not configured, the dispatcher calls setup() first and only
\* then the action; when setup fails the action is never called.
C9_SetupBeforeAction ==
    (invocation.action \in {"train", "generate", "run"}
        /\ invocation.tga_name \in TgaTable
        /\ invocation.action \in (IF dispImpl = "main" THEN MainActions ELSE OldActions)
        /\ ~invocation.configuredBefore)
        => /\ invocation.calls # <<>>
           /\ Head(invocation.calls) \in {"setup", "initialize"}
           /\ (invocation.setup = "failed" => Len(invocation.calls) = 1)

InitializedOk == lifeCall.op = "initialize" /\ lifeCall.outcome = "ok"

C11_CleanUnconfigures ==
    [][(lifeImpl = "SixDETTGA"
          /\ lifeCall.op = "clean" /\ lifeCall'.op \in {"train", "generate"})
          => /\ lifeCall'.outcome # "ok"
             /\ lifeCall'.work = {}
             /\ seedsFile' = seedsFile]_vars

\* the actions the running dispatcher handles
Handled == IF dispImpl = "main" THEN MainActions
           ELSE IF dispImpl = "old_main" THEN OldActions ELSE {"run"}

\* the last run dispatched a handled action to a name that is in no table
UnknownDispatch == invocation.tga_name = UnknownTga /\ invocation.action \in Handled

C13_SeedsCheckedFirst ==
    (dispImpl = "old_main" /\ invocation.action \in {"train", "run"}
        /\ invocation.tga_name \in TgaTable /\ ~invocation.seeds)
        => /\ invocation.error = "Must specify --seeds"
           /\ invocation.calls = <<>>
           /\ invocation.setup = "not run"
           /\ invocation.instantiated = {}

\* how often the last run called the plugin's run()
RunCalls == Cardinality({ i \in 1..Len(invocation.calls) : invocation.calls[i] = "run" })

\* C14: the dispatcher (handle_plugin_execution over LocalRunner.execute) calls
\* the plugin action at most once per execute call, exactly once when the
\* plugin was constructed, never again after a failure, and a failure raised
\* by the plugin never ends as a normal result: the run exits with status 1 and
\* puts out nothing.
C14_OnceAndNeverSwallowed ==
    (dispImpl = "cli" /\ invocation.action = "run")
        => /\ RunCalls <= 1
           /\ (invocation.calls # <<>> /\ invocation.error # "Exception" => RunCalls = 1)
           /\ (invocation.error = "Exception"
                  => invocation.exit = 1 /\ invocation.output = "none")
           /\ (invocation.exit = 0
                  => invocation.error = None /\ invocation.calls = <<"__init__", "run">>
                     /\ invocation.output # "none")

C14_Witness ==
    /\ dispImpl = "cli" /\ invocation.calls = <<"__init__", "run">>
    /\ invocation.error = "Exception" /\ invocation.exit = 1

C16_OwnWorkspace ==
    \A p \in Procs : wsProc[p].pc = "generated" => wsProc[p].result = p

\* C17: scan called with an AddressSet whose address list is empty returns a
\* ScanResultSet with no results and a defined scan_name, raises no error,
\* creates no temporary file and starts no external process.
C17_EmptyScanReturnsEmpty ==
    (scanCall.impl # "none" /\ scanCall.constructed /\ scanCall.addresses = <<>>)
        => /\ scanCall.outcome = "ok"
           /\ scanCall.scan_name # None
           /\ scanCall.tempFiles = 0 /\ scanCall.processes = 0
           /\ scanCall.results # None

\* C18: during unique-sample generation the progress bar is advanced by exactly
\* 1 for each newly accepted unique candidate and by nothing else: at every
\* loop head the total reported equals the number of accepted addresses and
\* never exceeds count.
C18_ProgressCountsAccepted ==
    (samImpl \in {"sixgen", "entropy", "sixveclm"} /\ samPc \in {"loop", "returned"})
        => (progress = Cardinality(seen) /\ progress <= count)

\* the method named by the requested action was called on the plugin
MethodInvoked ==
    \E i \in 1..Len(invocation.calls) : invocation.calls[i] = invocation.action

\* C19: each of the five CLI actions setup, train, generate, run and clean,
\* requested for a registered plugin and let through by the parser, calls the
\* lifecycle method of that name on the selected plugin: no accepted action
\* ends without its method having been called (a run that died in the automatic
\* setup aside).
C19_EveryActionDispatched ==
    (dispImpl \in {"old_main", "main"}
        /\ Accepted([action |-> invocation.action, tga_name |-> invocation.tga_name,
                     seeds |-> invocation.seeds])
        /\ invocation.setup # "failed")
        => MethodInvoked

\* C20: a CLI run ends with exit code 1 on every user-facing error (unknown
\* plugin, missing required flag, failure of the plugin) and with exit code 0
\* only when the requested action was carried out and succeeded.
C20_ExitCodes ==
    (invocation.action \in OldActions \cup Handled)
        => /\ (invocation.error # None => invocation.exit = 1)
           /\ (invocation.exit = 0 => invocation.error = None /\ MethodInvoked)

\* C21: at every step of unique-sample generation the set of accepted
\* addresses holds at most count elements: sampling stops as soon as the set
\* reaches count, also in the middle of a batch of candidates.
C21_NeverMoreThanCount ==
    (samImpl \in {"entropy", "sixveclm", "lstm"} /\ samPc \in {"loop", "batch", "returned"})
        => Cardinality(seen) <= count

\* C22: a train call that fails (invalid seed address, failing training
\* script) does not leave the plugin trained: a generate issued right after it
\* on the same plugin fails, and never generates from a partially written
\* seeds file or from the artifacts of an earlier training.
C22_FailedTrainNotTrained ==
    [][(/\ lifeImpl \in {"SixDETTGA", "SixGraphTGA"}
        /\ lifeCall.op = "train" /\ lifeCall.outcome \in {"ValueError", "RuntimeError"}
        /\ lifeCall'.op = "generate")
          => lifeCall'.outcome # "ok"]_vars

\* C23: SixForestTGA.generate(count) terminates for every count whenever the
\* training output file exists, and then returns exactly count addresses, also
\* for a training output with no wildcard pattern under a Region divider.
C23_ForestGenerateTerminates ==
    (/\ lifeImpl \in {"SixForestTGA", "OldSixForestTGA"}
     /\ lifeCall.op = "generate" /\ trainOut # NoFile)
        => (lifeCall.outcome = "ok" /\ Len(lifeCall.ret) = lifeCall.count)

\* a generate_unique(count) call on a trained LSTMIPv6TGA is running or has returned
LstmUniqueRun == samImpl = "lstm" /\ unique /\ trained /\ samPc \in {"loop", "returned"}

\* C24: LSTMIPv6TGA.generate_unique(count) on a trained model terminates after
\* at most count * 100 calls of generate(): every pass of its loop is one more
\* call and the calls never exceed count * 100; the list it returns has
\* pairwise-distinct elements and at most count of them.
C24_GenerateUniqueBounded ==
    /\ [](LstmUniqueRun =>
            /\ attempts <= count * AttemptsPerCount
            /\ Cardinality(seen) <= count
            /\ (samPc = "returned" => Distinct(result) /\ Len(result) <= count))
    /\ [][(LstmUniqueRun /\ samPc = "loop")
            => IF samPc' = "loop" THEN attempts' = attempts + 1
               ELSE samPc' = "returned" /\ attempts' = attempts]_vars

C24_Witness ==
    /\ LstmUniqueRun /\ samPc = "returned" /\ count = 2
    /\ attempts = count * AttemptsPerCount /\ Len(result) = 1

\* C25: registry lookup is the first step of every dispatch: a request that
\* names an unregistered plugin fails with the unknown-plugin error whatever
\* else is wrong with the request (a missing or malformed model reference),
\* before any other input is parsed and before any file is opened.
C25_LookupFirst ==
    (regImpl = "tga_registry" /\ regCall.op \in {"train", "generate"}
        /\ Unknown(regCall.name))
        => regCall.outcome = "ValueError: Unknown TGA"

\* the JSON responses among the lines the last run wrote to stdout
JsonResponses == SelectSeq(runnerRun.stdout, LAMBDA l : l \in {"error", "result"})
RunnerRan == regImpl = "tga_registry" /\ runnerRun.line.kind # "none"
UnknownCommand ==
    runnerRun.line.kind = "object"
        /\ runnerRun.line.command \notin {"list_tgas", "train", "generate"}

\* C26 as stated: the runner writes exactly one JSON response for each run: an
\* object with an "error" field when the stdin line is empty, is not valid
\* JSON, names an unknown command, or the command's handler raises, and the
\* handler's result object in every other case.
C26_OneResponse ==
    RunnerRan =>
        /\ Len(JsonResponses) = 1
        /\ (JsonResponses[1] = "error"
              <=> \/ runnerRun.line.kind \in {"empty", "not json"}
                  \/ UnknownCommand
                  \/ runnerRun.raised)

\* C26, amended: the runner writes exactly one JSON response for each run: an
\* object with an "error" field when the stdin line is empty, is not valid
\* JSON, is JSON but not an object, names an unknown command, or the command's
\* handler raises, and the handler's result object in every other case.
C26_OneResponseOrNotObject ==
    RunnerRan =>
        /\ Len(JsonResponses) = 1
        /\ (JsonResponses[1] = "error"
              <=> \/ runnerRun.line.kind \in {"empty", "not json", "not an object"}
                  \/ UnknownCommand
                  \/ runnerRun.raised)
        /\ (JsonResponses[1] # "error" => JsonResponses[1] = "result")

C26_Witness ==
    RunnerRan /\ runnerRun.line.kind = "not an object" /\ JsonResponses = <<"error">>

\* C27: in the ipv6kit CLI every registered plugin of the scan kind (the kind
\* PLUGIN_KINDS calls "scanner") is bound to the plugin-execution handler, and
\* every plugin of the dataset, tga and analyze kinds is bound to the
\* not-implemented handler.
C27_ScanPluginsAreExecuted ==
    (regImpl = "ipv6kit" /\ regCall.op = "cli" /\ regCall.cls # None)
        => /\ (regCall.kind \in {"scan", "scanner"}
                  => regCall.outcome = "handle_plugin_execution")
           /\ (regCall.kind \in {"dataset", "tga", "analyze"}
                  => regCall.outcome = "handle_not_implemented")

\* C28: a Zmap6TCPSYNScanner only ever exists with a port between 1 and 65535:
\* constructing one with a port outside that range is rejected with an error,
\* so no scan is ever started for such a port.
C28_PortInRange ==
    (scanCall.impl = "Zmap6TCPSYNScanner" /\ scanCall.constructed)
        => (MinPort <= scanCall.port /\ scanCall.port <= MaxPort)

\* C29: after any sequence of rmap registrations, every entry
\* PLUGINS[kind][n] is a class whose name attribute equals n, also when one
\* class is registered under several names or kinds, or an entry is overridden.
C29_EntryNameIsKey ==
    regImpl = "rmap" =>
        \A kind \in RegKinds, n \in RegKeys :
            PLUGINS[kind][n] # None => clsName[PLUGINS[kind][n]] = n

\* C30: with progress bars enabled, add_progress_bar called with the name of a
\* bar that is already open returns that name as the handle and changes
\* nothing: the bar table and the next auto-assigned position stay as they were.
C30_AddExistingIsNoOp ==
    [][(barCall'.op = "add" /\ _progress_bars_enabled
            /\ barCall'.name \in DOMAIN _progress_bars)
       => (/\ barCall'.ret = barCall'.name
           /\ _progress_bars' = _progress_bars
           /\ _next_progress_bar_position' = _next_progress_bar_position)]_vars

\* add_progress_bar has just answered a call that named an open bar
C30_Witness ==
    /\ _progress_bars_enabled
    /\ barCall.op = "add" /\ barCall.warned
    /\ barCall.ret = barCall.name
    /\ barCall.name \in DOMAIN _progress_bars
    /\ _next_progress_bar_position > 0

====
